---- MODULE Spec2Model ----
(***************************************************************************)
(* A model of get-sunburst-path.js: getSunBurstPath(tree, options) and the *)
(* helpers it calls (countLeaves, getDepth, drawChildren, pieSlice, ...).  *)
(*                                                                         *)
(* JavaScript values.  An optional property is a sequence of length at     *)
(* most one: <<>> is undefined, <<v>> is the value v.  A number is a pair   *)
(* <<n, d>>: the rational n/d in lowest terms when d > 0, NaN when         *)
(* n = d = 0, +Infinity/-Infinity when d = 0 and n = 1/-1.  Arithmetic is  *)
(* exact (the rounding of IEEE doubles is not modelled).  Angles are       *)
(* measured in units of Math.PI, so Math.PI is the number 1.               *)
(***************************************************************************)
EXTENDS Integers, Sequences, FiniteSets, TLC

VARIABLES
    input,        \* the tree as the caller passed it (never written)
    options,      \* the options argument
    tree,         \* the caller's tree, annotated in place (leaves, path)
    pc,           \* "start", "forEach", "done", "threw"
    i,            \* index of the next root child of tree.children.forEach
    startAngle,   \* the running angle cursor of getSunBurstPath
    totalLeaves,  \* var totalLeaves of getSunBurstPath
    svgElements,  \* the descriptors pushed so far
    result        \* the value returned: <<>> until the call returns

vars == <<input, options, tree, pc, i, startAngle, totalLeaves, svgElements, result>>

(***************************************************************************)
(* Bounds of the model.                                                    *)
(***************************************************************************)
\* Size of an input tree: its nodes plus the optional properties the caller
\* set on them (leaves, color, startAngle, endAngle, an empty children array).
MaxSize == 6

(***************************************************************************)
(* Optional values and numbers.                                            *)
(***************************************************************************)
Undefined == <<>>
Def(v) == <<v>>
IsDef(o) == o # Undefined

AbsInt(n) == IF n < 0 THEN -n ELSE n
SignInt(n) == IF n < 0 THEN -1 ELSE IF n = 0 THEN 0 ELSE 1

RECURSIVE GCD(_, _)
GCD(a, b) == IF b = 0 THEN a ELSE GCD(b, a % b)

NaN == <<0, 0>>
\* n/d for d # 0, in lowest terms with a positive denominator
Rat(n, d) ==
    LET g == GCD(AbsInt(n), AbsInt(d))
        s == SignInt(d)
    IN  <<(s * n) \div g, (s * d) \div g>>
Num(k) == <<k, 1>>
IsNaN(a) == a = NaN
IsFinite(a) == a[2] # 0

\* ToNumber of an optional property: undefined converts to NaN
ToNumber(o) == IF IsDef(o) THEN o[1] ELSE NaN

Add(a, b) ==
    IF IsNaN(a) \/ IsNaN(b) THEN NaN
    ELSE IF ~IsFinite(a) /\ ~IsFinite(b) THEN (IF a = b THEN a ELSE NaN)
    ELSE IF ~IsFinite(a) THEN a
    ELSE IF ~IsFinite(b) THEN b
    ELSE Rat(a[1] * b[2] + b[1] * a[2], a[2] * b[2])
Neg(a) == <<-a[1], a[2]>>
Sub(a, b) == Add(a, Neg(b))
Mul(a, b) ==
    IF IsNaN(a) \/ IsNaN(b) THEN NaN
    ELSE IF ~IsFinite(a) \/ ~IsFinite(b)
         THEN <<SignInt(a[1]) * SignInt(b[1]), 0>>
    ELSE Rat(a[1] * b[1], a[2] * b[2])
Div(a, b) ==
    IF IsNaN(a) \/ IsNaN(b) THEN NaN
    ELSE IF ~IsFinite(b) THEN (IF IsFinite(a) THEN Num(0) ELSE NaN)
    ELSE IF b[1] = 0 THEN <<SignInt(a[1]), 0>>
    ELSE IF ~IsFinite(a) THEN <<a[1] * SignInt(b[1]), 0>>
    ELSE Rat(a[1] * b[2], a[2] * b[1])
Abs(a) == <<AbsInt(a[1]), a[2]>>
\* a > b
Gt(a, b) ==
    IF IsNaN(a) \/ IsNaN(b) THEN FALSE
    ELSE IF ~IsFinite(a) \/ ~IsFinite(b)
         THEN a # b /\ (a = <<1, 0>> \/ b = <<-1, 0>>)
    ELSE a[1] * b[2] > b[1] * a[2]
\* a !== b on numbers: NaN differs from everything, itself included
StrictNE(a, b) == IsNaN(a) \/ IsNaN(b) \/ a # b
\* the truthiness of an optional number
Truthy(o) == IsDef(o) /\ ~IsNaN(o[1]) /\ o[1] # Num(0)

PI == Num(1)

(***************************************************************************)
(* Inputs: the trees and the options a caller may pass.                    *)
(***************************************************************************)
\* A node, with the properties the code reads or writes.  children is
\* undefined (a leaf) or an array of nodes.
Node(children, leaves, color, sa, ea) ==
    [children |-> children, leaves |-> leaves, color |-> color,
     startAngle |-> sa, endAngle |-> ea, path |-> Undefined]

CallerLeaves == {Undefined, Def(Num(0)), Def(Num(2))}
CallerColor == {Undefined, Def("red")}
CallerStart == {Undefined, Def(Rat(1, 2))}
CallerEnd == {Undefined, Def(Rat(1, 2)), Def(Num(1))}

Count(o) == IF IsDef(o) THEN 1 ELSE 0
AttrWeight(a) ==
    Count(a.leaves) + Count(a.color) + Count(a.startAngle) + Count(a.endAngle)

\* The properties a caller may set on a node of a kind: 0 the root, 1 a child
\* of the root, 2 a deeper node.  The code reads color only below the root
\* and startAngle/endAngle only on the children of the root.
Attrs(kind) ==
    [leaves : CallerLeaves,
     color : IF kind = 0 THEN {Undefined} ELSE CallerColor,
     startAngle : IF kind = 1 THEN CallerStart ELSE {Undefined},
     endAngle : IF kind = 1 THEN CallerEnd ELSE {Undefined}]

ChildKind(kind) == IF kind = 0 THEN 1 ELSE 2

RECURSIVE NodesOfSize(_, _), ForestsOfSize(_, _)
\* the arrays of nodes of a kind whose sizes sum to m (the empty array for 0)
ForestsOfSize(m, kind) ==
    IF m = 0 THEN {<<>>}
    ELSE UNION { { <<t>> \o f : t \in NodesOfSize(k, kind),
                                f \in ForestsOfSize(m - k, kind) }
                 : k \in 1..m }
\* the nodes of a kind of size exactly n
NodesOfSize(n, kind) ==
    UNION { LET rest == n - 1 - AttrWeight(a)
                mk(ch) == Node(ch, a.leaves, a.color, a.startAngle, a.endAngle)
            IN  IF rest < 0 THEN {}
                ELSE IF rest = 0 THEN {mk(Undefined)}
                ELSE (IF rest = 1 THEN {mk(Def(<<>>))} ELSE {})
                     \cup { mk(Def(f)) : f \in ForestsOfSize(rest, ChildKind(kind)) }
            : a \in Attrs(kind) }

Trees == UNION { NodesOfSize(n, 0) : n \in 1..MaxSize }

Options(initialRadius, levelStep, colors, sa, centerText, wrap) ==
    [initialRadius |-> initialRadius, levelStep |-> levelStep, colors |-> colors,
     startAngle |-> sa, centerText |-> centerText, wrap |-> wrap]

\* every option at its default and wrapped; radius, step and rotation given
\* and wrapped; a two-colour palette and a center text, not wrapped
OptionsSet ==
    { Options(Undefined, Undefined, Undefined, Undefined, Undefined, TRUE),
      Options(Def(Num(50)), Def(Num(20)), Undefined, Def(Rat(1, 2)), Undefined, TRUE),
      Options(Undefined, Def(Num(20)), Def(<<"c0", "c1">>), Undefined, Def("hi"), FALSE) }

Init ==
    /\ input \in Trees
    /\ options \in OptionsSet
    /\ tree = input
    /\ pc = "start"
    /\ i = 0
    /\ startAngle = NaN
    /\ totalLeaves = NaN
    /\ svgElements = <<>>
    /\ result = Undefined

(***************************************************************************)
(* Helpers of get-sunburst-path.js.                                        *)
(***************************************************************************)
DefaultInitialRadius == 100
DefaultLevelStep == 10
DefaultColors == <<"#f2ad52", "#e99e9b", "#ed684c", "#c03657", "#642b1c", "#132a4e">>

\* getNumber(x, defaultNumber): x when it is a finite number
getNumber(x, defaultNumber) ==
    IF IsDef(x) /\ IsFinite(x[1]) THEN x[1] ELSE defaultNumber

initialRadius == getNumber(options.initialRadius, Num(DefaultInitialRadius))
levelStep == getNumber(options.levelStep, Num(DefaultLevelStep))
colors == IF IsDef(options.colors) THEN options.colors[1] ELSE DefaultColors

\* the array tree.children of a node that has one
Kids(t) == t.children[1]

\* a || b on optional strings (the empty string is falsy)
OrElse(a, b) == IF IsDef(a) /\ a[1] # "" THEN a ELSE b

\* polarToCartesian(0, 0, radius, angle): the point is kept in polar form,
\* the cosine and sine are not evaluated
polarToCartesian(radius, angle) == [radius |-> radius, angle |-> angle]

\* arcSegment(radius, startAngle, endAngle, forward)
arcSegment(radius, sa, ea, forward) ==
    [radius |-> radius,
     start |-> polarToCartesian(radius, sa),
     end |-> polarToCartesian(radius, ea),
     flip |-> IF Gt(Abs(Sub(sa, ea)), PI) THEN 1 ELSE 0,
     forward |-> forward]

\* pieSlice(r, width, startAngle, endAngle): the inner arc, a line to the
\* start of the outer arc, the outer arc backwards, a line to inner.start
pieSlice(r, width, sa, ea) ==
    [inner |-> arcSegment(r, sa, ea, 1),
     out |-> arcSegment(Add(r, width), ea, sa, 0)]

\* circle(r): the inner disk
circle(r) ==
    [tag |-> "circle", r |-> Def(r), d |-> Undefined, fill |-> Def("#fafafa"),
     level |-> Undefined, path |-> Def("0"), text |-> Undefined]

\* the <text> element of options.centerText
centerTextElement(text) ==
    [tag |-> "text", r |-> Undefined, d |-> Undefined, fill |-> Undefined,
     level |-> Undefined, path |-> Undefined, text |-> Def(text)]

\* arc(pathData, color, level, child): one sector descriptor.  The stroke,
\* stroke-width and beforeClose attributes are appended text and are left out.
arc(pathData, color, level, child) ==
    [tag |-> "arc", r |-> Undefined, d |-> Def(pathData), fill |-> color,
     level |-> Def(level), path |-> child.path, text |-> Undefined]

\* getColor(element, i)
getColor(element, idx) ==
    IF IsDef(element.color) /\ element.color[1] # "" THEN element.color
    ELSE Def(colors[(idx % Len(colors)) + 1])

\* numbers the children from one
ChildPathFromOne(path, idx) == path \o ":" \o ToString(idx + 1)

\* path + ':' + i
ChildPath(path, idx) == path \o ":" \o ToString(idx)

RECURSIVE countLeaves(_), countEach(_, _)
\* the children.forEach of countLeaves from the k-th child on: the children
\* with their leaves annotated
countEach(kids, k) ==
    IF k > Len(kids) THEN kids
    ELSE countEach([kids EXCEPT ![k] = countLeaves(kids[k])], k + 1)

RECURSIVE SumLeaves(_, _)
\* leaves += countLeaves(child), over the children from the k-th on
SumLeaves(kids, k) ==
    IF k > Len(kids) THEN Num(0)
    ELSE Add(ToNumber(kids[k].leaves), SumLeaves(kids, k + 1))

\* countLeaves(treeNode): the node after the call; the value returned is
\* its leaves
countLeaves(treeNode) ==
    IF Truthy(treeNode.leaves) THEN treeNode
    ELSE IF IsDef(treeNode.children)
         THEN LET kids == countEach(Kids(treeNode), 1)
              IN  [treeNode EXCEPT !.children = Def(kids),
                                   !.leaves = Def(SumLeaves(kids, 1))]
         ELSE [treeNode EXCEPT !.leaves = Def(Num(1))]

RECURSIVE visit(_, _, _), visitEach(_, _, _, _)
visitEach(kids, k, depth, maxDepth) ==
    IF k > Len(kids) THEN maxDepth
    ELSE visitEach(kids, k + 1, depth, visit(kids[k], depth, maxDepth))
\* visit(tree, depth) of getDepth: the value of maxDepth after the visit
visit(t, depth, maxDepth) ==
    LET m == IF IsDef(t.children) THEN visitEach(Kids(t), 1, depth + 1, maxDepth)
             ELSE maxDepth
    IN  IF depth > m THEN depth ELSE m

getDepth(t) == visit(t, 0, 0)

\* counts the root's disk as a level
ViewMinExtraLevel(depth) == Add(Mul(Num(depth + 1), levelStep), initialRadius)

\* var min of wrapIntoSVG
ViewMin(depth) == Add(Mul(Num(depth), levelStep), initialRadius)

\* wrapIntoSVG(paths): the viewBox and the wrapped paths
wrapIntoSVG(paths) ==
    LET min == ViewMin(getDepth(tree))
    IN  [viewBox |-> Def(<<Neg(min), Neg(min), Mul(min, Num(2)), Mul(min, Num(2))>>),
         paths |-> paths]

\* shares the full circle, as the root-level pass does, instead of the parent's arc
ChildSpanOfCircle(arcLength, leaves, total) ==
    Div(Mul(Mul(Num(2), PI), ToNumber(leaves)), ToNumber(total))

\* var da of drawChildren
ChildSpan(arcLength, leaves, total) ==
    Div(Mul(arcLength, ToNumber(leaves)), ToNumber(total))

\* starts the ring one level further out
RingRadiusOneOut(level) == Add(initialRadius, Mul(Num(level + 1), levelStep))

\* the inner radius drawChildren passes to pieSlice
RingRadius(level) == Add(initialRadius, Mul(Num(level), levelStep))

RECURSIVE drawChildren(_, _, _, _, _, _, _), drawEach(_, _, _, _, _, _, _, _)
\* tree.children.forEach of drawChildren from the k-th child on; sa is the
\* running startAngle.  The value is the node and the elements afterwards.
drawEach(k, sa, arcLength, t, pathElements, level, color, path) ==
    IF k > Len(Kids(t)) THEN [tree |-> t, els |-> pathElements]
    ELSE LET child == Kids(t)[k]
             da == ChildSpan(arcLength, child.leaves, t.leaves)
             ea == Add(sa, da)
             arcPath == pieSlice(RingRadius(level), levelStep, sa, ea)
             thisPath == ChildPath(path, k - 1)
             child1 == [child EXCEPT !.path = Def(thisPath)]
             els1 == Append(pathElements,
                            arc(arcPath, OrElse(child.color, color), level, child1))
             sub == drawChildren(sa, ea, child1, els1, level + 1, color, thisPath)
             t1 == [t EXCEPT !.children[1][k] = sub.tree]
         IN  drawEach(k + 1, Add(sa, da), arcLength, t1, sub.els, level, color, path)

\* drawChildren(startAngle, endAngle, tree, pathElements, level, color, path)
drawChildren(sa, ea, t, pathElements, level, color, path) ==
    IF ~IsDef(t.children) THEN [tree |-> t, els |-> pathElements]
    ELSE drawEach(1, sa, Abs(Sub(sa, ea)), t, pathElements, level, color, path)

\* child.startAngle !== undefined && child.endAngle !== undefined
IsExplicit(child) == IsDef(child.startAngle) /\ IsDef(child.endAngle)

\* startAngle + 2 * Math.PI * child.leaves / totalLeaves
RootEndAngle(cursor, leaves, total) ==
    Add(cursor, Div(Mul(Mul(Num(2), PI), ToNumber(leaves)), total))

\* advances the cursor past an explicitly placed child too
NextCursorAlways(explicit, cursor, endAngle) == endAngle

\* the cursor after a root child: startAngle = endAngle runs only in the
\* branch without explicit placement
NextCursor(explicit, cursor, endAngle) == IF explicit THEN cursor ELSE endAngle

\* thisStartAngle !== endAngle: the slice is drawn
IsDrawn(thisStartAngle, endAngle) == StrictNE(thisStartAngle, endAngle)

(***************************************************************************)
(* getSunBurstPath(tree, options), step by step.                           *)
(***************************************************************************)
\* Lines 32-61: the options, countLeaves(tree), the inner disk, the center
\* text and the root's path.
Prologue ==
    /\ pc = "start"
    /\ LET counted == countLeaves(tree)
       IN  /\ totalLeaves' = ToNumber(counted.leaves)
           /\ tree' = [counted EXCEPT !.path = Def("0")]
    /\ startAngle' = getNumber(options.startAngle, Num(0))
    /\ svgElements' =
          <<circle(initialRadius)>> \o
          (IF IsDef(options.centerText) /\ options.centerText[1] # ""
           THEN <<centerTextElement(options.centerText[1])>> ELSE <<>>)
    /\ pc' = "forEach"
    /\ UNCHANGED <<input, options, i, result>>

\* Line 63 on a root without children: tree.children.forEach is a call on
\* undefined, a TypeError that ends the call.
ForEachThrows ==
    /\ pc = "forEach"
    /\ ~IsDef(tree.children)
    /\ pc' = "threw"
    /\ UNCHANGED <<input, options, tree, i, startAngle, totalLeaves, svgElements, result>>

\* Lines 63-92: one call of the forEach callback, for the child at index i.
RootChild ==
    /\ pc = "forEach"
    /\ IsDef(tree.children)
    /\ i < Len(Kids(tree))
    /\ LET child == Kids(tree)[i + 1]
           explicit == IsExplicit(child)
           thisStartAngle == IF explicit THEN child.startAngle[1] ELSE startAngle
           endAngle == IF explicit THEN child.endAngle[1]
                       ELSE RootEndAngle(startAngle, child.leaves, totalLeaves)
           thisPath == ChildPath("0", i)
           child1 == [child EXCEPT !.path = Def(thisPath)]
           drawn == IsDrawn(thisStartAngle, endAngle)
           arcPath == pieSlice(initialRadius, Mul(Num(1), levelStep),
                               thisStartAngle, endAngle)
           baseColor == IF drawn THEN getColor(child1, i) ELSE Undefined
           els1 == IF drawn THEN Append(svgElements, arc(arcPath, baseColor, 0, child1))
                   ELSE svgElements
           sub == drawChildren(thisStartAngle, endAngle, child1, els1, 1,
                               baseColor, thisPath)
       IN  /\ startAngle' = NextCursor(explicit, startAngle, endAngle)
           /\ tree' = [tree EXCEPT !.children[1][i + 1] = sub.tree]
           /\ svgElements' = sub.els
    /\ i' = i + 1
    /\ UNCHANGED <<input, options, pc, totalLeaves, result>>

\* Lines 94-100: the forEach is over; the elements are joined and, with
\* options.wrap, wrapped into an <svg> element.
Return ==
    /\ pc = "forEach"
    /\ IsDef(tree.children)
    /\ i = Len(Kids(tree))
    /\ result' = Def(IF options.wrap THEN wrapIntoSVG(svgElements)
                     ELSE [viewBox |-> Undefined, paths |-> svgElements])
    /\ pc' = "done"
    /\ UNCHANGED <<input, options, tree, i, startAngle, totalLeaves, svgElements>>

Next == Prologue \/ ForEachThrows \/ RootChild \/ Return

Spec == Init /\ [][Next]_vars

(***************************************************************************)
(* Vocabulary of the properties.  A position is the sequence of child      *)
(* indices (from 0, as forEach counts them) leading from the root to a     *)
(* node; its length is the node's depth.                                   *)
(***************************************************************************)
RECURSIVE Positions(_)
Positions(t) ==
    {<<>>} \cup
    (IF IsDef(t.children)
     THEN UNION { { <<k - 1>> \o q : q \in Positions(Kids(t)[k]) }
                  : k \in 1..Len(Kids(t)) }
     ELSE {})

RECURSIVE NodeAt(_, _)
NodeAt(t, p) == IF p = <<>> THEN t ELSE NodeAt(Kids(t)[p[1] + 1], Tail(p))

Parent(p) == SubSeq(p, 1, Len(p) - 1)
LastIndex(p) == p[Len(p)]
HasChildren(n) == IF IsDef(n.children) THEN Len(Kids(n)) > 0 ELSE FALSE
NumKids(n) == IF IsDef(n.children) THEN Len(Kids(n)) ELSE 0

Max(S) == CHOOSE m \in S : \A x \in S : x <= m

\* the sector descriptors emitted so far, and those of a node
ArcIndices == { k \in 1..Len(svgElements) : svgElements[k].tag = "arc" }
ArcsAt(t, p) ==
    { k \in ArcIndices : IsDef(NodeAt(t, p).path)
                         /\ svgElements[k].path = NodeAt(t, p).path }
ArcStart(k) == svgElements[k].d[1].inner.start.angle
ArcEnd(k) == svgElements[k].d[1].inner.end.angle
ArcInner(k) == svgElements[k].d[1].inner.radius
ArcOuter(k) == svgElements[k].d[1].out.radius

OptStartAngle == getNumber(options.startAngle, Num(0))
Returned == pc = "done"

(***************************************************************************)
(* C1.  Partition law.                                                     *)
(***************************************************************************)
\* no caller-supplied leaves, startAngle or endAngle, and every childless
\* node has no children property
PlainWeights(t) ==
    \A p \in Positions(t) :
        LET n == NodeAt(t, p)
        IN  /\ ~IsDef(n.leaves) /\ ~IsDef(n.startAngle) /\ ~IsDef(n.endAngle)
            /\ n.children # Def(<<>>)

\* the interval of the node at p, read from its one descriptor (for the
\* root, the full circle from options.startAngle)
IntervalAt(p) ==
    IF p = <<>> THEN <<OptStartAngle, Add(OptStartAngle, Mul(Num(2), PI))>>
    ELSE LET k == CHOOSE k \in ArcsAt(tree, p) : TRUE
         IN  <<ArcStart(k), ArcEnd(k)>>

\* C1: on a tree without caller-supplied leaves or angles whose childless
\* nodes have no children property, every node is drawn exactly once, the
\* children of every node tile its interval in sibling order (the first
\* starts where the parent starts, each next one where the previous ends,
\* the last ends where the parent ends) and the width of each child is the
\* parent's width times child.leaves / parent.leaves.
PartitionLaw ==
    (Returned /\ PlainWeights(input)) =>
        /\ \A p \in Positions(tree) \ {<<>>} : Cardinality(ArcsAt(tree, p)) = 1
        /\ \A p \in Positions(tree) :
              LET n == NodeAt(tree, p)
                  own == IntervalAt(p)
                  width == Sub(own[2], own[1])
              IN  HasChildren(n) =>
                    /\ \A k \in 1..Len(Kids(n)) :
                          LET c == IntervalAt(p \o <<k - 1>>)
                              prev == IntervalAt(p \o <<k - 2>>)
                          IN  /\ c[1] = IF k = 1 THEN own[1] ELSE prev[2]
                              /\ Sub(c[2], c[1]) =
                                    Div(Mul(width, Kids(n)[k].leaves[1]), n.leaves[1])
                              /\ IsFinite(c[1]) /\ IsFinite(c[2])
                    /\ IntervalAt(p \o <<Len(Kids(n)) - 1>>)[2] = own[2]

\* a returned call on root children with leaf counts 1, 1, 2 (the third one
\* through its own two children) and startAngle 0: widths pi/2, pi/2, pi
PartitionWitness ==
    /\ Returned /\ PlainWeights(input) /\ OptStartAngle = Num(0)
    /\ NumKids(tree) = 3
    /\ <<Kids(tree)[1].leaves, Kids(tree)[2].leaves, Kids(tree)[3].leaves>>
          = <<Def(Num(1)), Def(Num(1)), Def(Num(2))>>
    /\ NumKids(Kids(tree)[3]) = 2
    /\ IntervalAt(<<0>>) = <<Num(0), Rat(1, 2)>>
    /\ IntervalAt(<<1>>) = <<Rat(1, 2), Num(1)>>
    /\ IntervalAt(<<2>>) = <<Num(1), Num(2)>>
    /\ IntervalAt(<<2, 1>>) = <<Rat(3, 2), Num(2)>>

(***************************************************************************)
(* C2.  Leaf-count law.                                                    *)
(***************************************************************************)
\* countLeaves was called on the node at p: no proper ancestor carried a
\* truthy caller-supplied leaves
ReachedByCount(p) ==
    \A k \in 0..(Len(p) - 1) : ~Truthy(NodeAt(input, SubSeq(p, 1, k)).leaves)

RECURSIVE SumOver(_, _)
SumOver(kids, k) ==
    IF k = 0 THEN Num(0) ELSE Add(SumOver(kids, k - 1), ToNumber(kids[k].leaves))

\* C2: after countLeaves(root), every node countLeaves reached that had no
\* caller-supplied leaves has the sum of its children's leaves when it has
\* children, and 1 when it has none (children absent or an empty array).
LeafCountLaw ==
    pc # "start" =>
        \A p \in Positions(tree) :
            (ReachedByCount(p) /\ ~IsDef(NodeAt(input, p).leaves)) =>
                LET n == NodeAt(tree, p)
                IN  n.leaves = IF HasChildren(n)
                               THEN Def(SumOver(Kids(n), Len(Kids(n))))
                               ELSE Def(Num(1))

(***************************************************************************)
(* C3.  Zero-weight omission.                                              *)
(***************************************************************************)
\* C3: no descriptor is emitted for an interval whose start equals its end:
\* every emitted sector descriptor has start !== end.
ZeroWeightOmission ==
    \A k \in ArcIndices : StrictNE(ArcStart(k), ArcEnd(k))

(***************************************************************************)
(* C4.  Leaf-only root.                                                    *)
(***************************************************************************)
\* C4: a call on a root without a children property completes normally and
\* returns the inner disk alone.
LeafOnlyRoot ==
    ~IsDef(input.children) =>
        /\ pc # "threw"
        /\ Returned => /\ ArcIndices = {}
                       /\ svgElements[1].tag = "circle"
                       /\ getDepth(tree) = 0

(***************************************************************************)
(* C5.  Colour inheritance.                                                *)
(***************************************************************************)
RECURSIVE ResolvedColor(_)
\* own color, else the palette for a child of the root, else the resolved
\* colour of the parent
ResolvedColor(p) ==
    LET n == NodeAt(tree, p)
    IN  IF IsDef(n.color) THEN n.color
        ELSE IF Len(p) = 1 THEN Def(colors[(p[1] % Len(colors)) + 1])
        ELSE ResolvedColor(Parent(p))

\* C5: the fill of every emitted sector is the node's own color, else the
\* resolved colour of its nearest ancestor (the palette entry i mod length
\* for the root's child at index i).
ColourInheritance ==
    \A p \in Positions(tree) \ {<<>>} :
        \A k \in ArcsAt(tree, p) : svgElements[k].fill = ResolvedColor(p)

(***************************************************************************)
(* C6.  Ring radius.                                                       *)
(***************************************************************************)
\* C6: in the returned output the sector of a node at depth d >= 1 has
\* inner radius initialRadius + (d-1)*levelStep, thickness levelStep and so
\* outer radius initialRadius + d*levelStep.
RingRadiusLaw ==
    Returned =>
        \A p \in Positions(tree) \ {<<>>} :
            \A k \in ArcsAt(tree, p) :
                /\ ArcInner(k) = Add(initialRadius, Mul(Num(Len(p) - 1), levelStep))
                /\ ArcOuter(k) = Add(initialRadius, Mul(Num(Len(p)), levelStep))
                /\ ArcOuter(k) = Add(ArcInner(k), levelStep)

\* a sector at depth 3 under initialRadius 50 and levelStep 20: ring 90..110
RingRadiusWitness ==
    /\ Returned
    /\ options.initialRadius = Def(Num(50)) /\ options.levelStep = Def(Num(20))
    /\ \E p \in Positions(tree) :
          /\ Len(p) = 3
          /\ \E k \in ArcsAt(tree, p) : ArcInner(k) = Num(90) /\ ArcOuter(k) = Num(110)

(***************************************************************************)
(* C7.  Depth and bound.                                                   *)
(***************************************************************************)
MaxEdges(t) == Max({ Len(p) : p \in Positions(t) })

RECURSIVE DeepenFrom(_, _)
\* t with one child added below every node that lies d edges below t
DeepenFrom(t, d) ==
    IF d = 0 THEN [t EXCEPT !.children = Def(<<Node(Undefined, Undefined, Undefined,
                                                   Undefined, Undefined)>>)]
    ELSE IF ~IsDef(t.children) THEN t
    ELSE [t EXCEPT !.children =
            Def([k \in 1..Len(Kids(t)) |-> DeepenFrom(Kids(t)[k], d - 1)])]
\* one more level of children below every deepest node
Deepen(t) == DeepenFrom(t, MaxEdges(t))

\* C7: on every tree passed in, getDepth is the largest number of edges
\* from the root to a node, and one more after a level of children is added
\* below every deepest node; a wrapped result has the viewBox
\* [-b, -b, 2b, 2b] with b = depth * levelStep + initialRadius.
DepthBoundLaw ==
    /\ pc = "start" =>
          /\ getDepth(tree) = MaxEdges(tree)
          /\ getDepth(Deepen(tree)) = getDepth(tree) + 1
    /\ (Returned /\ options.wrap) =>
          LET b == Add(Mul(Num(MaxEdges(input)), levelStep), initialRadius)
          IN  result[1].viewBox = Def(<<Neg(b), Neg(b), Mul(Num(2), b), Mul(Num(2), b)>>)

\* initialRadius 100, levelStep 10, depth 2: the bound is 120
DepthBoundWitness ==
    /\ Returned /\ options.wrap
    /\ initialRadius = Num(100) /\ levelStep = Num(10)
    /\ getDepth(tree) = 2
    /\ result[1].viewBox = Def(<<Num(-120), Num(-120), Num(240), Num(240)>>)

(***************************************************************************)
(* C8.  Path identifiers.                                                  *)
(***************************************************************************)
\* C8: after the call returns, the root's path is "0", every other node's
\* path is its parent's path, ":" and its index among its siblings, and no
\* two nodes share a path.
PathLaw ==
    Returned =>
        /\ tree.path = Def("0")
        /\ \A p \in Positions(tree) \ {<<>>} :
              /\ IsDef(NodeAt(tree, Parent(p)).path)
              /\ NodeAt(tree, p).path =
                    Def(NodeAt(tree, Parent(p)).path[1] \o ":" \o ToString(LastIndex(p)))
        /\ \A p, q \in Positions(tree) :
              NodeAt(tree, p).path = NodeAt(tree, q).path => p = q

\* a returned call in which a second child at depth 2 has path "0:0:1" and a
\* node that got no sector has its path all the same
PathWitness ==
    /\ Returned
    /\ \E p \in Positions(tree) : p = <<0, 1>> /\ NodeAt(tree, p).path = Def("0:0:1")
    /\ \E p \in Positions(tree) \ {<<>>} :
          IsDef(NodeAt(tree, p).path) /\ ArcsAt(tree, p) = {}

(***************************************************************************)
(* C9.  Metrics completeness.                                              *)
(***************************************************************************)
\* C9: after countLeaves(tree) every node of the tree has a numeric leaves.
MetricsComplete ==
    pc # "start" => \A p \in Positions(tree) : IsDef(NodeAt(tree, p).leaves)

(***************************************************************************)
(* C10.  Explicit placement at the root.                                   *)
(***************************************************************************)
BothAngles(n) == IsDef(n.startAngle) /\ IsDef(n.endAngle)

RECURSIVE ExpectedStart(_)
\* where the root child at index k starts when it is placed from the
\* cursor: the end of the closest earlier child without explicit placement,
\* options.startAngle when there is none
ExpectedStart(k) ==
    LET free == { j \in 0..(k - 1) : ~BothAngles(Kids(tree)[j + 1]) }
    IN  IF free = {} THEN OptStartAngle
        ELSE LET j == Max(free)
             IN  Add(ExpectedStart(j),
                     Div(Mul(Mul(Num(2), PI), ToNumber(Kids(tree)[j + 1].leaves)),
                         totalLeaves))

\* C10: a root child with both startAngle and endAngle takes exactly that
\* interval and leaves the cursor where it was; any other root child (one
\* with only one of the two set included) starts where the previous child
\* without explicit placement ended, or at options.startAngle, is
\* 2*pi*leaves/totalLeaves wide, and moves the cursor to its end.
ExplicitPlacement ==
    (pc \in {"forEach", "done"} /\ IsDef(tree.children)) =>
        /\ startAngle = ExpectedStart(i)
        /\ \A k \in 0..(i - 1) :
              LET child == Kids(tree)[k + 1]
                  from == IF BothAngles(child) THEN child.startAngle[1]
                          ELSE ExpectedStart(k)
                  to == IF BothAngles(child) THEN child.endAngle[1]
                        ELSE ExpectedStart(k + 1)
              IN  /\ Cardinality(ArcsAt(tree, <<k>>)) =
                        IF StrictNE(from, to) THEN 1 ELSE 0
                  /\ \A a \in ArcsAt(tree, <<k>>) : ArcStart(a) = from /\ ArcEnd(a) = to

\* a returned call whose first root child is placed explicitly at
\* [pi/2, pi] and whose second, carrying only an endAngle, starts at
\* options.startAngle and advances the cursor
ExplicitWitness ==
    /\ Returned /\ NumKids(tree) = 2
    /\ BothAngles(Kids(tree)[1])
    /\ IsDef(Kids(tree)[2].endAngle) /\ ~IsDef(Kids(tree)[2].startAngle)
    /\ \E a \in ArcsAt(tree, <<0>>) : ArcStart(a) = Rat(1, 2) /\ ArcEnd(a) = Num(1)
    /\ \E a \in ArcsAt(tree, <<1>>) :
          ArcStart(a) = OptStartAngle /\ ArcEnd(a) = startAngle /\ ArcEnd(a) # ArcStart(a)
====
